---- MODULE Spec2Model ----
(***************************************************************************)
(* docdb: an append-only record log (src/src/log.rs) and the Store built   *)
(* on it (src/src/db.rs).  The log file is a byte sequence; the Store owns *)
(* a buffered writer on it and an in-memory index rebuilt by replay.       *)
(*                                                                         *)
(* Bytes are naturals below 256.  A text key is modelled by its UTF-8      *)
(* bytes.  The buffered writer's capacity is scaled down with the keys and  *)
(* values: the short records fit in the buffer and reach the file by flush *)
(* only (or by the writer's drop), a record with the long value does not   *)
(* fit and makes write_all flush in the middle of the call.                *)
(*                                                                         *)
(* Db::put and Db::delete are two steps each (the append to the log, then  *)
(* the index update), so that a crash can fall between them.  The          *)
(* variables acked, attempts and closed are history: the calls that        *)
(* returned success, the records handed to the writer, and the index at    *)
(* the last close.                                                         *)
(***************************************************************************)
EXTENDS Integers, Sequences, FiniteSets, TLC

\* ---------------------------------------------------------------- bounds
MaxOps == 3        \* put/delete calls in a behaviour without failure
MaxFailOps == 2    \* put/delete calls in a behaviour with a failure
MaxFailures == 1   \* failures (failing writes of the file, process kills,
                   \* power losses) in one behaviour
MaxRawRecs == 3    \* records of a log file that exists before the first open
MaxTwoOps == 2     \* put/delete calls of two Stores open on one directory

\* ------------------------------------------------------- program constants
RECORD_PUT == 0
RECORD_DELETE == 1

\* The capacity of BufWriter::new(file): 8 KiB in the standard library,
\* scaled here to the sizes of the model's records.  A Put with the empty
\* value (at most 10 bytes) fits, a Put with the long value (14 or 15
\* bytes) does not.
BUF_CAPACITY == 12

\* ------------------------------------------------------------ input sets
\* the empty key and the key "k"
Keys == { <<>>, <<107>> }
\* the empty value and a value whose bytes are an encoded Delete of ""
Values == { <<>>, <<1, 0, 0, 0, 0>> }
Inst == { 1, 2 }
SingleInst == { 1 }

\* A log file found by the first open (written through Log::put and
\* Log::delete, which take any bytes as key, or damaged since): records
\* with the key "k" or the key of the single byte 0xFF, which is not valid
\* UTF-8, followed by nothing, by a record cut short, or by a record with
\* a tag other than 0 and 1.
RawKeys == { <<107>>, <<255>> }
RawValues == { <<>>, <<118>> }
RawTails ==
  { <<>>,
    <<0, 1, 0, 0, 0, 107>>,
    <<2>>, <<2, 1, 0, 0, 0>>,
    <<2, 0, 0, 0, 0>>, <<2, 1, 0, 0, 0, 107>>, <<255, 0, 0, 0, 0>> }

VARIABLES file, synced, db, ret, acked, attempts, closed, ops, faults, crashes

vars == <<file, synced, db, ret, acked, attempts, closed, ops, faults, crashes>>

\* ------------------------------------------------------------ byte helpers
Take(s, n) == SubSeq(s, 1, n)
Drop(s, n) == SubSeq(s, n + 1, Len(s))
IsPrefix(s, t) == Len(s) <= Len(t) /\ Take(t, Len(s)) = s

\* `len as u32`: the cast reduces a length modulo 2^32.  Every length of
\* the model is below 2^31 (the largest integer of the model checker), where
\* the cast changes nothing.
AsU32(n) == n

\* the length written most significant byte first (to_be_bytes)
Le32_BigEndian(n) ==
  << (n \div 16777216) % 256, (n \div 65536) % 256, (n \div 256) % 256, n % 256 >>

\* u32::to_le_bytes
Le32(n) ==
  << n % 256, (n \div 256) % 256, (n \div 65536) % 256, (n \div 16777216) % 256 >>

\* u32::from_le_bytes
FromLe32(b) == b[1] + 256 * b[2] + 65536 * b[3] + 16777216 * b[4]

\* ---------------------------------------------------------------- records
PutRecord(key, value) == [type |-> "Put", key |-> key, value |-> value]
DeleteRecord(key) == [type |-> "Delete", key |-> key]

\* the five write_all calls of Log::put, in order
EncodePut(key, value) ==
  <<RECORD_PUT>> \o Le32(AsU32(Len(key))) \o key
                 \o Le32(AsU32(Len(value))) \o value

\* the three write_all calls of Log::delete, in order
EncodeDelete(key) ==
  <<RECORD_DELETE>> \o Le32(AsU32(Len(key))) \o key

Encode(rec) ==
  IF rec.type = "Put" THEN EncodePut(rec.key, rec.value) ELSE EncodeDelete(rec.key)

RECURSIVE EncodeAll(_)
EncodeAll(recs) ==
  IF recs = <<>> THEN <<>> ELSE Encode(Head(recs)) \o EncodeAll(Tail(recs))

\* --------------------------------------------------------------- read_all
ReadOk(records) == [ok |-> TRUE, records |-> records, err |-> "none"]
ReadErr(records, e) == [ok |-> FALSE, records |-> records, err |-> e]

\* The loop of Log::read_all from byte position pos (1-based).  The field
\* records of an error result is the list built so far, which the code
\* discards: it is kept for stating what was parsed before the error.
RECURSIVE ReadFrom(_, _, _)
ReadFrom(bytes, pos, records) ==
  IF pos > Len(bytes)
  THEN ReadOk(records)
  ELSE IF pos + 4 > Len(bytes)
  THEN ReadErr(records, "UnexpectedEof")
  ELSE
    LET tag == bytes[pos]
        keyLen == FromLe32(SubSeq(bytes, pos + 1, pos + 4))
    IN  IF pos + 4 + keyLen > Len(bytes)
        THEN ReadErr(records, "UnexpectedEof")
        ELSE
          LET key == SubSeq(bytes, pos + 5, pos + 4 + keyLen)
              p2 == pos + 5 + keyLen
          IN  IF tag = RECORD_PUT
              THEN IF p2 + 3 > Len(bytes)
                   THEN ReadErr(records, "UnexpectedEof")
                   ELSE
                     LET valueLen == FromLe32(SubSeq(bytes, p2, p2 + 3))
                     IN  IF p2 + 3 + valueLen > Len(bytes)
                         THEN ReadErr(records, "UnexpectedEof")
                         ELSE ReadFrom(bytes, p2 + 4 + valueLen,
                                Append(records,
                                  PutRecord(key, SubSeq(bytes, p2 + 4, p2 + 3 + valueLen))))
              ELSE IF tag = RECORD_DELETE
              THEN ReadFrom(bytes, p2, Append(records, DeleteRecord(key)))
              ELSE ReadErr(records, "InvalidData")

\* read_all that takes a truncated last record for the end of the log
ReadAll_Tolerant(bytes) ==
  LET r == ReadFrom(bytes, 1, <<>>)
  IN  IF r.err = "UnexpectedEof" THEN ReadOk(r.records) ELSE r

ReadAll(bytes) == ReadFrom(bytes, 1, <<>>)

\* ------------------------------------------------------------------ index
EmptyIndex == [k \in {} |-> <<>>]

\* an insert that keeps the value of a key already present
IndexInsert_KeepOld(index, key, value) ==
  [k \in DOMAIN index \cup {key} |-> IF k \in DOMAIN index THEN index[k] ELSE value]

IndexInsert(index, key, value) ==
  [k \in DOMAIN index \cup {key} |-> IF k = key THEN value ELSE index[k]]

\* a remove that empties the map
IndexRemove_Clear(index, key) == EmptyIndex

IndexRemove(index, key) ==
  [k \in DOMAIN index \ {key} |-> index[k]]

\* a conversion that takes any bytes for text
IsUtf8_Any(bytes) == TRUE

\* String::from_utf8 succeeds.  The byte strings of the model are ASCII
\* text or hold a byte of 128 and above that is no valid UTF-8 sequence by
\* itself, so the text is valid exactly when every byte is ASCII.
IsUtf8(bytes) == \A j \in 1..Len(bytes) : bytes[j] < 128

\* a replay that does not apply Delete records
ApplyRecord_KeepDeleted(index, rec) ==
  IF IsUtf8(rec.key) /\ rec.type = "Put"
  THEN IndexInsert(index, rec.key, rec.value)
  ELSE index

\* one iteration of the for loop of Db::replay_log
ApplyRecord(index, rec) ==
  IF ~IsUtf8(rec.key) THEN index
  ELSE IF rec.type = "Put" THEN IndexInsert(index, rec.key, rec.value)
  ELSE IndexRemove(index, rec.key)

RECURSIVE Fold(_, _)
Fold(index, recs) ==
  IF recs = <<>> THEN index ELSE Fold(ApplyRecord(index, Head(recs)), Tail(recs))

RECURSIVE Reverse(_)
Reverse(s) == IF s = <<>> THEN <<>> ELSE Append(Reverse(Tail(s)), Head(s))

\* a replay that reads the log without asking whether the file exists:
\* File::open of a missing file is an error
ReplayLog_NoExistsCheck(f) ==
  LET r == ReadAll(f.bytes)
  IN  IF f.exists /\ r.ok THEN [ok |-> TRUE, index |-> Fold(EmptyIndex, r.records)]
      ELSE [ok |-> FALSE, index |-> EmptyIndex]

\* a replay that applies the records from the last to the first
ReplayLog_Reversed(f) ==
  IF ~f.exists THEN [ok |-> TRUE, index |-> EmptyIndex]
  ELSE LET r == ReadAll(f.bytes)
       IN  IF r.ok THEN [ok |-> TRUE, index |-> Fold(EmptyIndex, Reverse(r.records))]
           ELSE [ok |-> FALSE, index |-> EmptyIndex]

\* Db::replay_log on the log file f
ReplayLog(f) ==
  IF ~f.exists THEN [ok |-> TRUE, index |-> EmptyIndex]
  ELSE LET r == ReadAll(f.bytes)
       IN  IF r.ok THEN [ok |-> TRUE, index |-> Fold(EmptyIndex, r.records)]
           ELSE [ok |-> FALSE, index |-> EmptyIndex]

\* Option: None and Some(v)
None == <<>>
Some(v) == <<v>>

\* Db::get
Get(index, key) == IF key \in DOMAIN index THEN Some(index[key]) ELSE None

\* ------------------------------------------------------- the log file
\* an open that truncates (create(true).write(true).truncate(true))
\* an open that writes a marker byte at the end of the file
FileOpenAppend_Marker(f) ==
  [exists |-> TRUE, bytes |-> (IF f.exists THEN f.bytes ELSE <<>>) \o <<RECORD_DELETE>>]

FileOpenAppend_Truncate(f) == [exists |-> TRUE, bytes |-> <<>>]

\* OpenOptions::new().create(true).append(true).open(path): an existing
\* file keeps its content, a missing one is created empty
FileOpenAppend(f) ==
  IF f.exists THEN f ELSE [exists |-> TRUE, bytes |-> <<>>]

\* a write through a descriptor opened with append(true) lands at the
\* current end of the file
FileAppend(f, data) == [f EXCEPT !.bytes = f.bytes \o data]

\* BufWriter::flush_buf when the underlying file takes n bytes of the
\* buffer before a write fails (n = Len(buf): no write fails).  The bytes
\* written leave the buffer, the others stay in it.
FlushBuf(buf, n) ==
  [written |-> Take(buf, n), rest |-> Drop(buf, n), ok |-> n = Len(buf)]

Min(a, b) == IF a <= b THEN a ELSE b

\* The writer during one call of Log::put or Log::delete: its buffer, the
\* bytes it has given to the file in this call, the number of bytes the
\* file still takes before a write of it fails, and whether every write
\* so far succeeded.
Writer(buf, left) == [buf |-> buf, written |-> <<>>, left |-> left, ok |-> TRUE]

\* self.flush_buf()? inside the call: the file takes what it still can
WriterFlush(w) ==
  IF ~w.ok THEN w
  ELSE LET fl == FlushBuf(w.buf, Min(Len(w.buf), w.left))
       IN  [buf |-> fl.rest, written |-> w.written \o fl.written,
            left |-> w.left - Len(fl.written), ok |-> fl.ok]

\* BufWriter::write_all(chunk)?: a chunk that fits in the spare capacity is
\* copied into the buffer; otherwise the buffer is flushed first, and a
\* chunk of at least the capacity then goes to the file directly, where
\* the bytes the file does not take are lost.  After an error the ?
\* returns from the call, so the later chunks never reach the writer.
WriterWriteAll(w, chunk) ==
  IF ~w.ok THEN w
  ELSE LET w1 == IF Len(chunk) > BUF_CAPACITY - Len(w.buf) THEN WriterFlush(w) ELSE w
       IN  IF ~w1.ok THEN w1
           ELSE IF Len(chunk) >= BUF_CAPACITY
           THEN LET k == Min(Len(chunk), w1.left)
                IN  [buf |-> w1.buf, written |-> w1.written \o Take(chunk, k),
                     left |-> w1.left - k, ok |-> k = Len(chunk)]
           ELSE [w1 EXCEPT !.buf = w1.buf \o chunk]

RECURSIVE WriterWriteChunks(_, _)
WriterWriteChunks(w, chunks) ==
  IF chunks = <<>> THEN w
  ELSE WriterWriteChunks(WriterWriteAll(w, Head(chunks)), Tail(chunks))

\* the write_all calls of Log::put and of Log::delete, in order
LogChunks(op, key, value) ==
  IF op = "put"
  THEN << <<RECORD_PUT>>, Le32(AsU32(Len(key))), key, Le32(AsU32(Len(value))), value >>
  ELSE << <<RECORD_DELETE>>, Le32(AsU32(Len(key))), key >>

\* Log::put and Log::delete on a writer holding buf, when the file takes
\* left more bytes: the write_all calls, then self.writer.flush()?
LogWrite(buf, op, key, value, left) ==
  WriterFlush(WriterWriteChunks(Writer(buf, left), LogChunks(op, key, value)))

\* ----------------------------------------------------- bounds of the model
\* one more put or delete may be called
CanCall == ops < (IF faults + crashes > 0 THEN MaxFailOps ELSE MaxOps)

\* one more failure may happen, in a behaviour that then has n calls
CanFail(n) == faults + crashes < MaxFailures /\ n <= MaxFailOps

\* ------------------------------------------------------------ the Store
\* an index update that does not wait for the result of the append
DbIndexUpdate_Unconditional(index, op, key, value, appended) ==
  IF op = "put" THEN IndexInsert(index, key, value) ELSE IndexRemove(index, key)

\* The index update of Db::put and Db::delete: self.log.put(..)? and
\* self.log.delete(..)? return early when the append failed, so the index
\* changes only after an append that succeeded.
DbIndexUpdate(index, op, key, value, appended) ==
  IF ~appended THEN index
  ELSE IF op = "put" THEN IndexInsert(index, key, value)
  ELSE IndexRemove(index, key)

\* History: the records handed to the writer whose bytes, or part of
\* them, can still reach the file.  When a writer goes away with its
\* buffer, the records of which no byte is in the first len bytes of the
\* file are forgotten.
RECURSIVE Reaching(_, _)
Reaching(recs, len) ==
  IF recs = <<>> \/ len <= 0 THEN <<>>
  ELSE <<Head(recs)>> \o Reaching(Tail(recs), len - Len(Encode(Head(recs))))

NoDb ==
  [st |-> "none", index |-> EmptyIndex, buf |-> <<>>, pc |-> "idle",
   key |-> <<>>, value |-> <<>>, failed |-> FALSE, openLen |-> 0]

NoReturn == [op |-> "none", inst |-> 0, res |-> "none", err |-> "none"]
Returned(op, i, res, err) == [op |-> op, inst |-> i, res |-> res, err |-> err]

NotClosed == [valid |-> FALSE, index |-> EmptyIndex]

Init ==
  /\ file = [exists |-> FALSE, bytes |-> <<>>]
  /\ synced = 0
  /\ db = [i \in Inst |-> NoDb]
  /\ ret = NoReturn
  /\ acked = <<>>
  /\ attempts = <<>>
  /\ closed = NotClosed
  /\ ops = 0
  /\ faults = 0
  /\ crashes = 0

\* an open that takes a lock on the directory and fails while another
\* Store holds it
Open_Exclusive(i) ==
  /\ db[i].st = "none"
  /\ LET r == ReplayLog(file)
         free == \A j \in Inst : db[j].st = "none"
     IN  IF r.ok /\ free
         THEN /\ file' = FileOpenAppend(file)
              /\ db' = [db EXCEPT ![i] = [NoDb EXCEPT !.st = "open", !.index = r.index,
                                                      !.openLen = Len(file.bytes)]]
              /\ ret' = Returned("open", i, "ok", "none")
         ELSE /\ UNCHANGED <<file, db>>
              /\ ret' = Returned("open", i, "err", "locked")
  /\ UNCHANGED <<synced, acked, attempts, closed, ops, faults, crashes>>

\* Db::open: replay first, and only when replay succeeded open the log
\* for appending
Open(i) ==
  /\ db[i].st = "none"
  /\ LET r == ReplayLog(file)
         e == IF file.exists THEN ReadAll(file.bytes).err ELSE "none"
     IN  IF r.ok
         THEN /\ file' = FileOpenAppend(file)
              /\ db' = [db EXCEPT ![i] = [NoDb EXCEPT !.st = "open", !.index = r.index,
                                                      !.openLen = Len(file.bytes)]]
              /\ ret' = Returned("open", i, "ok", "none")
         ELSE /\ UNCHANGED <<file, db>>
              /\ ret' = Returned("open", i, "err", e)
  /\ UNCHANGED <<synced, acked, attempts, closed, ops, faults, crashes>>

\* The append of a record by Log::put or Log::delete on the writer of
\* instance i: the write_all calls extend the buffer, flush hands the
\* buffer to the file, which takes n bytes of it.  On success the call
\* goes on to the index update (pc), on failure it returns the error.
LogAppend(i, op, key, value, encoded, n) ==
  LET fl == LogWrite(db[i].buf, op, key, value, n)
  IN  /\ n \in 0..(Len(db[i].buf) + Len(encoded))
      /\ file' = FileAppend(file, fl.written)
      /\ IF fl.ok
         THEN /\ db' = [db EXCEPT ![i].buf = fl.buf, ![i].pc = op,
                                  ![i].key = key, ![i].value = value]
              /\ ret' = Returned(op, i, "pending", "none")
              /\ faults' = faults
         ELSE /\ CanFail(ops + 1)
              /\ db' = [db EXCEPT ![i].buf = fl.buf, ![i].failed = TRUE,
                                  ![i].index = DbIndexUpdate(db[i].index, op, key, value, FALSE)]
              /\ ret' = Returned(op, i, "err", "io")
              /\ faults' = faults + 1
      /\ ops' = ops + 1
      /\ attempts' = Append(attempts, IF op = "put" THEN PutRecord(key, value)
                                                    ELSE DeleteRecord(key))
      /\ closed' = NotClosed
      /\ UNCHANGED <<synced, acked, crashes>>

\* Db::put up to the return of self.log.put(..)?
PutLog(i, key, value) ==
  /\ db[i].st = "open" /\ db[i].pc = "idle"
  /\ CanCall
  /\ \E n \in 0..(Len(db[i].buf) + Len(EncodePut(key, value))) :
       LogAppend(i, "put", key, value, EncodePut(key, value), n)

\* Db::put after the append succeeded: self.index.insert, Ok(())
PutIndex(i) ==
  /\ db[i].st = "open" /\ db[i].pc = "put"
  /\ db' = [db EXCEPT ![i].index = DbIndexUpdate(db[i].index, "put", db[i].key, db[i].value, TRUE),
                      ![i].pc = "idle", ![i].key = <<>>, ![i].value = <<>>]
  /\ ret' = Returned("put", i, "ok", "none")
  /\ acked' = Append(acked, PutRecord(db[i].key, db[i].value))
  /\ UNCHANGED <<file, synced, attempts, closed, ops, faults, crashes>>

\* Db::delete up to the return of self.log.delete(..)?
DeleteLog(i, key) ==
  /\ db[i].st = "open" /\ db[i].pc = "idle"
  /\ CanCall
  /\ \E n \in 0..(Len(db[i].buf) + Len(EncodeDelete(key))) :
       LogAppend(i, "delete", key, <<>>, EncodeDelete(key), n)

\* Db::delete after the append succeeded: self.index.remove, Ok(())
DeleteIndex(i) ==
  /\ db[i].st = "open" /\ db[i].pc = "delete"
  /\ db' = [db EXCEPT ![i].index = DbIndexUpdate(db[i].index, "delete", db[i].key, <<>>, TRUE),
                      ![i].pc = "idle", ![i].key = <<>>, ![i].value = <<>>]
  /\ ret' = Returned("delete", i, "ok", "none")
  /\ acked' = Append(acked, DeleteRecord(db[i].key))
  /\ UNCHANGED <<file, synced, attempts, closed, ops, faults, crashes>>

\* Db::close: the Store is dropped, and the drop of its BufWriter tries
\* flush_buf once and ignores the result; close returns Ok(())
Close(i) ==
  /\ db[i].st = "open" /\ db[i].pc = "idle"
  /\ \E n \in 0..Len(db[i].buf) :
       LET fl == FlushBuf(db[i].buf, n)
       IN  /\ ~fl.ok => CanFail(ops)
           /\ faults' = IF fl.ok THEN faults ELSE faults + 1
           /\ file' = FileAppend(file, fl.written)
           /\ attempts' = Reaching(attempts, Len(file.bytes) + n)
  /\ db' = [db EXCEPT ![i] = NoDb]
  /\ ret' = Returned("close", i, "ok", "none")
  /\ closed' = [valid |-> ~db[i].failed, index |-> db[i].index]
  /\ UNCHANGED <<synced, acked, ops, crashes>>

\* what a read call returns: the call, its argument and its result
ReturnedValue(op, i, key, out) ==
  [op |-> op, inst |-> i, res |-> "ok", err |-> "none", key |-> key, out |-> out]

\* a lookup that takes the entry out of the map
GetCall_Remove(i, key) ==
  /\ db[i].st = "open" /\ db[i].pc = "idle"
  /\ ret' = ReturnedValue("get", i, key, Get(db[i].index, key))
  /\ db' = [db EXCEPT ![i].index = IndexRemove(db[i].index, key)]
  /\ UNCHANGED <<file, synced, acked, attempts, closed, ops, faults, crashes>>

\* Db::get(&self, key): self.index.get(key), nothing else
GetCall(i, key) ==
  /\ db[i].st = "open" /\ db[i].pc = "idle"
  /\ ret' = ReturnedValue("get", i, key, Get(db[i].index, key))
  /\ UNCHANGED <<file, synced, db, acked, attempts, closed, ops, faults, crashes>>

\* an iteration that may repeat a key or leave one out
KeyOrders_Any(index) ==
  UNION {[1..n -> DOMAIN index] : n \in 0..Cardinality(DOMAIN index)}

\* HashMap::keys: an iterator that visits every key of the map once, in
\* an order the map does not promise
KeyOrders(index) ==
  {s \in [1..Cardinality(DOMAIN index) -> DOMAIN index] :
     \A a, b \in DOMAIN s : a # b => s[a] # s[b]}

\* Db::keys(&self): self.index.keys(), collected by the caller
KeysCall(i) ==
  /\ db[i].st = "open" /\ db[i].pc = "idle"
  /\ \E order \in KeyOrders(db[i].index) :
       ret' = ReturnedValue("keys", i, <<>>, order)
  /\ UNCHANGED <<file, synced, db, acked, attempts, closed, ops, faults, crashes>>

\* The process is killed (or leaves through process::exit, as main.rs does
\* on an error): every Store and its buffer are gone without a drop, the
\* file keeps what the operating system was given.
ProcCrash ==
  /\ CanFail(ops)
  /\ \E i \in Inst : db[i].st = "open"
  /\ db' = [i \in Inst |-> NoDb]
  /\ ret' = Returned("crash", 0, "none", "none")
  /\ closed' = NotClosed
  /\ crashes' = crashes + 1
  /\ attempts' = Reaching(attempts, Len(file.bytes))
  /\ UNCHANGED <<file, synced, acked, ops, faults>>

\* The machine loses power.  flush of the BufWriter hands the bytes to the
\* operating system and File::flush does nothing more; the code never
\* calls sync_all or sync_data, so of the bytes written since the last
\* power loss any prefix may have reached persistent storage.
PowerLoss ==
  /\ CanFail(ops)
  /\ file.exists
  /\ \E n \in synced..Len(file.bytes) :
       /\ file' = [file EXCEPT !.bytes = Take(file.bytes, n)]
       /\ synced' = n
       /\ attempts' = Reaching(attempts, n)
  /\ db' = [i \in Inst |-> NoDb]
  /\ ret' = Returned("powerloss", 0, "none", "none")
  /\ closed' = NotClosed
  /\ crashes' = crashes + 1
  /\ UNCHANGED <<acked, ops, faults>>

Next ==
  \E i \in SingleInst :
    \/ Open(i)
    \/ \E key \in Keys, value \in Values : PutLog(i, key, value)
    \/ PutIndex(i)
    \/ \E key \in Keys : DeleteLog(i, key)
    \/ DeleteIndex(i)
    \/ Close(i)
    \/ ProcCrash
    \/ PowerLoss

Spec == Init /\ [][Next]_vars

\* The calls of one Store with its reads: open, put, delete, get, keys and
\* close on one handle at a time, with the write failures of Spec.  The
\* process and the machine stay up.
NextRead ==
  \E i \in SingleInst :
    \/ Open(i)
    \/ \E key \in Keys, value \in Values : PutLog(i, key, value)
    \/ PutIndex(i)
    \/ \E key \in Keys : DeleteLog(i, key)
    \/ DeleteIndex(i)
    \/ \E key \in Keys : GetCall(i, key)
    \/ KeysCall(i)
    \/ Close(i)

SpecRead == Init /\ [][NextRead]_vars

\* Two Stores on one directory, in one process or in two: each has its
\* own writer and its own index, the file is shared, and the steps of
\* their calls interleave.  The process and the machine stay up and no
\* write of the file fails.
NextTwo ==
  \E i \in Inst :
    \/ Open(i)
    \/ \E key \in Keys, value \in Values :
         ops < MaxTwoOps /\ PutLog(i, key, value) /\ faults' = faults
    \/ PutIndex(i)
    \/ \E key \in Keys :
         ops < MaxTwoOps /\ DeleteLog(i, key) /\ faults' = faults
    \/ DeleteIndex(i)
    \/ Close(i)

SpecTwo == Init /\ [][NextTwo]_vars

\* ------------------------------------------------- lengths at full width
\* The lengths of Log::put and Log::delete for keys and values of any
\* size.  A length (usize) is written here as a number in base 256, five
\* digits with the most significant first, so that lengths of 2^32 and
\* more are among the inputs; a key or value is known by its length only.
Lengths ==
  { <<d5, d4, d3, d2, d1>> :
      d5 \in {0, 1}, d4 \in {0, 255}, d3 \in {0}, d2 \in {0, 255}, d1 \in {0, 1, 255} }

\* `len as u32`: the low 32 bits of the length, a number of four digits
AsU32Wide(len) == SubSeq(len, Len(len) - 3, Len(len))

\* u32::to_le_bytes: the four digits, least significant first
Le32Wide(u) == Reverse(u)

\* what Log::put and Log::delete write for a key of keyLen bytes (and a
\* value of valueLen bytes) when every write succeeds: the tag, the four
\* bytes of the length field, and then write_all of the whole key (value)
WrittenLengths(op, keyLen, valueLen) ==
  IF op = "put"
  THEN [op |-> op, inst |-> 0, res |-> "ok", err |-> "none",
        tag |-> RECORD_PUT,
        keyField |-> Le32Wide(AsU32Wide(keyLen)), keyBytes |-> keyLen,
        valueField |-> Le32Wide(AsU32Wide(valueLen)), valueBytes |-> valueLen]
  ELSE [op |-> op, inst |-> 0, res |-> "ok", err |-> "none",
        tag |-> RECORD_DELETE,
        keyField |-> Le32Wide(AsU32Wide(keyLen)), keyBytes |-> keyLen]

\* Log::put with a key of keyLen bytes and a value of valueLen bytes
LenPut(keyLen, valueLen) ==
  /\ ret' = WrittenLengths("put", keyLen, valueLen)
  /\ UNCHANGED <<file, synced, db, acked, attempts, closed, ops, faults, crashes>>

\* Log::delete with a key of keyLen bytes
LenDelete(keyLen) ==
  /\ ret' = WrittenLengths("delete", keyLen, keyLen)
  /\ UNCHANGED <<file, synced, db, acked, attempts, closed, ops, faults, crashes>>

NextLen ==
  \/ \E keyLen \in Lengths, valueLen \in Lengths : LenPut(keyLen, valueLen)
  \/ \E keyLen \in Lengths : LenDelete(keyLen)

SpecLen == Init /\ [][NextLen]_vars

\* --------------------------------------------- a log file that exists
RawRecords ==
  {[type |-> "Put", key |-> k, value |-> v] : k \in RawKeys, v \in RawValues}
    \cup {[type |-> "Delete", key |-> k] : k \in RawKeys}

RawLogs == UNION {[1..n -> RawRecords] : n \in 0..MaxRawRecs}

\* The directory holds a log file: the records recs followed by tail.
InitRaw ==
  \E recs \in RawLogs, tail \in RawTails :
    /\ file = [exists |-> TRUE, bytes |-> EncodeAll(recs) \o tail]
    /\ synced = Len(EncodeAll(recs) \o tail)
    /\ db = [i \in Inst |-> NoDb]
    /\ ret = NoReturn
    /\ acked = <<>>
    /\ attempts = recs
    /\ closed = NotClosed
    /\ ops = 0
    /\ faults = 0
    /\ crashes = 0

\* the Store is opened on the file, and closed
NextRaw ==
  \E i \in SingleInst :
    \/ Open(i)
    \/ Close(i)

SpecRaw == InitRaw /\ [][NextRaw]_vars

\* ================================================================ claims
\* a is a subsequence of b
RECURSIVE IsSubseq(_, _)
IsSubseq(a, b) ==
  IF a = <<>> THEN TRUE
  ELSE IF b = <<>> THEN FALSE
  ELSE IF Head(a) = Head(b) THEN IsSubseq(Tail(a), Tail(b))
  ELSE IsSubseq(a, Tail(b))

\* no write of the file has failed and nothing has crashed so far
Clean == faults = 0 /\ crashes = 0

\* the file ends exactly at the end of one of the records handed to the
\* writer (or is empty)
AtBoundary ==
  \E j \in 0..Len(attempts) : file.bytes = EncodeAll(Take(attempts, j))

\* the operation recorded last for key in the sequence of acknowledged
\* calls decides the value of the key
RECURSIVE LastWriter(_, _)
LastWriter(recs, key) ==
  IF recs = <<>> THEN None
  ELSE LET last == recs[Len(recs)]
       IN  IF last.key = key
           THEN IF last.type = "Put" THEN Some(last.value) ELSE None
           ELSE LastWriter(Take(recs, Len(recs) - 1), key)

\* What is in the file is a prefix of the bytes of the records handed to
\* the writer: no write of a call that failed in the middle of its
\* write_all calls has left bytes out of the file.
FilePrefixOfAttempts == IsPrefix(file.bytes, EncodeAll(attempts))

\* C1: after a crash (process kill or power loss), an open of the directory
\* replays every record of a put or delete that had returned success.
C1_AckedWritesSurviveCrash ==
  ret.op \in {"crash", "powerloss"} =>
    \A j \in 1..Len(acked) :
      LET r == ReadAll(file.bytes)
      IN  r.ok /\ IsSubseq(Take(acked, j), r.records)

\* C2: when a Store on which no call failed is closed and the directory is
\* opened again, the new index equals the index held just before close.
C2_ReopenSameIndex ==
  \A i \in Inst :
    (db[i].st = "open" /\ closed.valid) => db[i].index = closed.index

C2_Witness ==
  /\ ret.op = "open" /\ ret.res = "ok"
  /\ closed.valid
  /\ DOMAIN closed.index # {}
  /\ \E j \in 1..Len(acked) : acked[j].type = "Delete"

\* C3: with only successful calls so far, get(k) of an open Store is the
\* value of the last put(k, v) unless a delete(k) follows it, and absent
\* otherwise.
C3_LastWriterWins ==
  \A i \in SingleInst :
    (Clean /\ db[i].st = "open" /\ db[i].pc = "idle") =>
      \A k \in Keys : Get(db[i].index, k) = LastWriter(acked, k)

\* a reopened Store in which a key was put, deleted and put again
C3_Witness ==
  /\ Clean
  /\ ret.op = "open" /\ ret.res = "ok"
  /\ \E k \in Keys, v \in Values :
       /\ Len(acked) = 3
       /\ acked[1].type = "Put" /\ acked[1].key = k
       /\ acked[2] = DeleteRecord(k)
       /\ acked[3] = PutRecord(k, v)
       /\ Get(db[1].index, k) = Some(v)

\* C4: between the operations of an open Store the index equals the fold
\* of the records in the log file.
C4_IndexEqualsLogFold ==
  \A i \in SingleInst :
    (db[i].st = "open" /\ db[i].pc = "idle") =>
      db[i].index = Fold(EmptyIndex, ReadAll(file.bytes).records)

\* C5: a put or delete that returns an error of the append leaves the
\* index, and so the result of every get, as it was before the call.
C5_FailedCallKeepsIndex ==
  [][ \A i \in Inst :
        ( /\ faults' = faults + 1
          /\ ret'.op \in {"put", "delete"} /\ ret'.res = "err" /\ ret'.inst = i )
        => /\ db'[i].index = db[i].index
           /\ \A k \in Keys : Get(db'[i].index, k) = Get(db[i].index, k) ]_vars

\* a put of a new key or value has just failed on a Store with a key
C5_Witness ==
  /\ ret.op = "put" /\ ret.res = "err"
  /\ DOMAIN db[1].index # {}
  /\ LET a == attempts[Len(attempts)]
     IN  Get(db[1].index, a.key) # Some(a.value)

\* C6: in every state, inside a put or delete too, the index equals the
\* fold of the log or the fold of the log without its last record.
C6_IndexNeverAheadOfLog ==
  \A i \in SingleInst :
    db[i].st = "open" =>
      LET recs == ReadAll(file.bytes).records
      IN  \/ db[i].index = Fold(EmptyIndex, recs)
          \/ /\ recs # <<>>
             /\ db[i].index = Fold(EmptyIndex, Take(recs, Len(recs) - 1))

\* C7: after a crash that left a partial record at the end of the file,
\* open succeeds with the index of the complete records before it.
C7_PartialTailTolerated ==
  ( /\ ret.op = "open"
    /\ crashes > 0
    /\ ~AtBoundary )
  => /\ ret.res = "ok"
     /\ db[ret.inst].st = "open"
     /\ db[ret.inst].index = Fold(EmptyIndex, ReadAll(file.bytes).records)

\* C8: on a file that holds the bytes of the records handed to the
\* writer, in order and possibly cut short, read_all ends normally when
\* the file ends at a record boundary and fails with the end-of-file error
\* when it ends inside a record; open then returns the error and no Store.
C8_EofInsideRecordIsError ==
  FilePrefixOfAttempts =>
    /\ AtBoundary => ReadAll(file.bytes).ok
    /\ ~AtBoundary =>
         /\ ~ReadAll(file.bytes).ok
         /\ ReadAll(file.bytes).err = "UnexpectedEof"
         /\ ret.op = "open" =>
              /\ ret.res = "err"
              /\ \A i \in Inst : db[i].st = "none"

\* an open has failed on a file with complete records and a partial one
C8_Witness ==
  /\ ret.op = "open" /\ ret.res = "err"
  /\ FilePrefixOfAttempts
  /\ ~AtBoundary
  /\ ReadAll(file.bytes).records # <<>>

\* C9: no open, put, delete or close changes or removes a byte already in
\* the file: the file before the step is a prefix of the file after it.
C9_AppendOnly ==
  [][ crashes' = crashes =>
        /\ IsPrefix(file.bytes, file'.bytes)
        /\ file.exists => file'.exists ]_vars

\* a record appended by a Store that was opened on a non-empty log
C9_Witness ==
  /\ db[1].st = "open"
  /\ db[1].openLen > 0
  /\ ret.op = "put" /\ ret.res = "ok"
  /\ Len(file.bytes) > db[1].openLen

\* C10: when every append so far succeeded, read_all returns exactly the
\* records appended, in call order.
C10_RoundTrip ==
  Clean => ReadAll(file.bytes) = ReadOk(attempts)

\* three appends, among them the empty key with the value that looks like
\* a record, an empty value, and a Delete
C10_Witness ==
  /\ Clean
  /\ Len(attempts) = 3
  /\ \E j \in 1..3 : attempts[j] = PutRecord(<<>>, <<1, 0, 0, 0, 0>>)
  /\ \E j \in 1..3 : attempts[j].type = "Put" /\ attempts[j].value = <<>>
  /\ \E j \in 1..3 : attempts[j].type = "Delete"
  /\ ReadAll(file.bytes).ok

\* The map of the rule "Put overwrites, Delete removes" over the keys of
\* keys: a key is in it when the last record about it is a Put, with the
\* value of that Put.
RefIndex(recs, keys) ==
  [k \in {x \in keys : LastWriter(recs, x) # None} |-> LastWriter(recs, k)[1]]

\* the keys of the records recs
KeysOf(recs) == {recs[j].key : j \in 1..Len(recs)}

\* C11: the index built by replay when a Store is opened equals the map
\* obtained from the records of the log with the rule Put overwrites,
\* Delete removes, over every key that the log or the callers name.
C11_ReplayFoldCorrect ==
  \A i \in SingleInst :
    (ret.op = "open" /\ ret.res = "ok" /\ ret.inst = i) =>
      LET recs == ReadAll(file.bytes).records
      IN  db[i].index = RefIndex(recs, Keys \cup KeysOf(recs))

\* a Store opened on a log that starts with a Delete of a key never put,
\* repeats the Delete and then puts a key
C11_Witness ==
  /\ ret.op = "open" /\ ret.res = "ok"
  /\ LET recs == ReadAll(file.bytes).records
     IN  /\ Len(recs) = 3
         /\ recs[1].type = "Delete"
         /\ recs[2] = recs[1]
         /\ recs[3].type = "Put"
         /\ DOMAIN db[1].index # {}

\* what follows the records of the log file found by the first open
RawTail == Drop(file.bytes, Len(EncodeAll(attempts)))

ValidKey(rec) == \A j \in 1..Len(rec.key) : rec.key[j] < 128

\* C12: a record whose key is not valid text is skipped by replay: open
\* succeeds, and the index is the one of the other records, applied in
\* order as if the skipped records were not in the log.
C12_InvalidKeySkipped ==
  RawTail = <<>> =>
    /\ ReadAll(file.bytes).ok
    /\ \A i \in SingleInst :
         (ret.op = "open" /\ ret.inst = i) =>
           /\ ret.res = "ok"
           /\ db[i].st = "open"
           /\ db[i].index = RefIndex(SelectSeq(attempts, ValidKey), RawKeys)

\* a Store opened on a log with a Put of the invalid key between two Puts of
\* the key "k": the index holds the value of the second Put of "k" and
\* nothing under the invalid key
C12_Witness ==
  /\ ret.op = "open" /\ ret.res = "ok"
  /\ Len(attempts) = 3
  /\ attempts[1] = PutRecord(<<107>>, <<118>>)
  /\ attempts[2] = PutRecord(<<255>>, <<>>)
  /\ attempts[3] = PutRecord(<<107>>, <<>>)
  /\ Get(db[1].index, <<107>>) = Some(<<>>)
  /\ Get(db[1].index, <<255>>) = None

\* C13: when read_all reaches a record whose tag byte is neither 0 nor 1,
\* it returns the error "unknown record type" and open fails with it,
\* whatever follows the tag byte.
C13_UnknownTagError ==
  ( /\ ret.op = "open"
    /\ RawTail # <<>>
    /\ RawTail[1] \notin {RECORD_PUT, RECORD_DELETE} )
  => /\ ret.res = "err"
     /\ ret.err = "InvalidData"
     /\ ReadAll(file.bytes).err = "InvalidData"

\* C14: delete(k) on a key that is absent from the index is not an error.
\* The append step of such a call adds to the file what the writer holds
\* followed by one Delete record for k, and when the file took all of it
\* the call goes on and returns success; the step that returns success
\* leaves the index as it was.
C14_DeleteAbsentKey ==
  [][\A i \in SingleInst :
       /\ ( /\ db[i].st = "open" /\ db[i].pc = "idle"
            /\ ret'.op = "delete" /\ ret'.inst = i
            /\ Get(db[i].index, attempts'[Len(attempts')].key) = None
            /\ db'[i].buf = <<>> )
          => /\ ret'.res = "pending"
             /\ db'[i].pc = "delete"
             /\ db'[i].index = db[i].index
             /\ file'.bytes = file.bytes \o db[i].buf
                                \o EncodeDelete(attempts'[Len(attempts')].key)
       /\ ( /\ db[i].pc = "delete"
            /\ db'[i].st = "open" /\ db'[i].pc = "idle"
            /\ Get(db[i].index, db[i].key) = None )
          => /\ ret' = Returned("delete", i, "ok", "none")
             /\ db'[i].index = db[i].index
             /\ file' = file
    ]_vars

\* delete("k") returned success on a Store that holds the empty key only:
\* the log has grown by the Delete record, the index has not changed
C14_Witness ==
  /\ ret = Returned("delete", 1, "ok", "none")
  /\ acked = <<PutRecord(<<>>, <<>>), DeleteRecord(<<107>>)>>
  /\ file.bytes = EncodePut(<<>>, <<>>) \o EncodeDelete(<<107>>)
  /\ DOMAIN db[1].index = {<<>>}

\* the value a reopen finds for the key: the fold of the records read_all
\* parses from the file
Replayed(f, key) == Get(Fold(EmptyIndex, ReadAll(f.bytes).records), key)

\* the step is a step of a put or delete call of instance i on the key k2:
\* its append step or its index step
CallStepOn(i, k2) ==
  /\ db[i].st = "open" /\ db'[i].st = "open"
  /\ ret'.op \in {"put", "delete"} /\ ret'.inst = i
  /\ \/ db[i].pc = "idle" /\ attempts'[Len(attempts')].key = k2
     \/ db[i].pc # "idle" /\ db[i].key = k2

\* C15: multi-key isolation.  A put or delete on k2, successful or failed,
\* leaves the presence and value of every other key k1 unchanged, in the
\* index of the live Store and in what a reopen would rebuild.
C15_MultiKeyIsolation ==
  [][\A i \in SingleInst : \A k2 \in Keys : \A k1 \in Keys \ {k2} :
       CallStepOn(i, k2) =>
         /\ Get(db'[i].index, k1) = Get(db[i].index, k1)
         /\ Replayed(file', k1) = Replayed(file, k1)
    ]_vars

\* C16: opening a directory that holds no log file succeeds, yields a
\* Store in which get of every key is absent, and creates an empty log
\* file, on which a second open yields the empty index again.
C16_OpenWithoutLog ==
  [][\A i \in SingleInst :
       (db[i].st = "none" /\ ~file.exists /\ ret'.op = "open" /\ ret'.inst = i) =>
         /\ ret'.res = "ok"
         /\ db'[i].st = "open"
         /\ \A k \in Keys : Get(db'[i].index, k) = None
         /\ DOMAIN db'[i].index = {}
         /\ file' = [exists |-> TRUE, bytes |-> <<>>]
         /\ ReplayLog(file') = [ok |-> TRUE, index |-> EmptyIndex]
    ]_vars

\* the second open, after the first Store was closed without a call
C16_Witness ==
  /\ ret = Returned("open", 1, "ok", "none")
  /\ closed.valid
  /\ ops = 0
  /\ file = [exists |-> TRUE, bytes |-> <<>>]
  /\ db[1].st = "open" /\ db[1].index = EmptyIndex

\* the step is a get or keys call of instance i
ReadStep(i) ==
  /\ db[i].st = "open"
  /\ ret'.op \in {"get", "keys"} /\ ret'.inst = i
  /\ ret' # ret

\* C17: get and keys are pure reads.  A read of an open Store returns
\* without an error and leaves the bytes of the log, the writer and the
\* index as they were; a get of k right after a successful put(k, v)
\* returns v, with no reopen in between.
C17_PureReads ==
  [][\A i \in SingleInst :
       ReadStep(i) =>
         /\ ret'.res = "ok" /\ ret'.err = "none"
         /\ file' = file /\ synced' = synced
         /\ db' = db
         /\ ret'.op = "get" => ret'.out = Get(db'[i].index, ret'.key)
         /\ ( /\ ret = Returned("put", i, "ok", "none")
              /\ ret'.op = "get"
              /\ ret'.key = acked[Len(acked)].key )
            => ret'.out = Some(acked[Len(acked)].value)
    ]_vars

\* get("k") returned the value of the put("k", v) that overwrote an
\* earlier value, on the handle that made the put
C17_Witness ==
  /\ ret = ReturnedValue("get", 1, <<107>>, Some(<<1, 0, 0, 0, 0>>))
  /\ acked = <<PutRecord(<<107>>, <<>>), PutRecord(<<107>>, <<1, 0, 0, 0, 0>>)>>
  /\ db[1].st = "open" /\ ~closed.valid
  /\ file.bytes = EncodeAll(acked)

\* C18: the keys produced by keys() are exactly the keys for which get is
\* not absent, each of them once; the order is not fixed.
C18_KeysAreLiveKeys ==
  \A i \in SingleInst :
    (ret.op = "keys" /\ ret.inst = i) =>
      /\ LET listed == {ret.out[j] : j \in 1..Len(ret.out)}
             keys == Keys \cup listed \cup DOMAIN db[i].index
         IN  listed = {k \in keys : Get(db[i].index, k) # None}
      /\ \A a, b \in 1..Len(ret.out) : a # b => ret.out[a] # ret.out[b]

\* keys() after put(""), put("k"), delete(""): the deleted key is not
\* listed, the live one is
C18_Witness ==
  /\ ret = ReturnedValue("keys", 1, <<>>, << <<107>> >>)
  /\ Len(acked) = 3
  /\ acked[3] = DeleteRecord(<<>>)
  /\ acked[1].type = "Put" /\ acked[1].key = <<>>
  /\ acked[2].type = "Put" /\ acked[2].key = <<107>>

\* keys() listing two keys in the order opposite to the order of their puts
C18_OrderWitness ==
  /\ ret = ReturnedValue("keys", 1, <<>>, << <<107>>, <<>> >>)
  /\ Len(acked) = 2 /\ acked[1].key = <<>> /\ acked[2].key = <<107>>

\* the record layout as the format states it: a tag byte, the length of
\* the key in four bytes, least significant first, the key, and for a Put
\* the length of the value in the same form and the value
LayoutLen(n) == [j \in 1..4 |-> (n \div (256 ^ (j - 1))) % 256]

Layout(rec) ==
  IF rec.type = "Put"
  THEN <<0>> \o LayoutLen(Len(rec.key)) \o rec.key
             \o LayoutLen(Len(rec.value)) \o rec.value
  ELSE <<1>> \o LayoutLen(Len(rec.key)) \o rec.key

RECURSIVE LayoutAll(_)
LayoutAll(recs) ==
  IF recs = <<>> THEN <<>> ELSE Layout(Head(recs)) \o LayoutAll(Tail(recs))

\* the step is an append of instance i that succeeded
AppendOk(i) ==
  /\ db[i].st = "open" /\ db[i].pc = "idle"
  /\ db'[i].st = "open" /\ db'[i].pc \in {"put", "delete"}

\* C19: a successful Put or Delete append adds exactly the bytes of the
\* layout of its record to the file, and what read_all accepts is a
\* concatenation of such layouts.
C19_ByteLayout ==
  [][\A i \in SingleInst :
       AppendOk(i) =>
         /\ file'.bytes = file.bytes \o Layout(attempts'[Len(attempts')])
         /\ ReadAll(file'.bytes).ok =>
              file'.bytes = LayoutAll(ReadAll(file'.bytes).records)
    ]_vars

\* C20: a put or delete that returned an error never takes effect later.
\* While the process and the machine stay up, the records a reopen
\* replays are the records of the calls that returned success, so no
\* failed call is among them and no later flush has written its bytes.
C20_FailedCallNeverLands ==
  (crashes = 0 /\ ret.op = "open" /\ ret.res = "ok") =>
    ReadAll(file.bytes).records = acked

\* a call of the open Store i failed earlier and its last put or delete
\* returned success, with the process and the machine up all along
SucceededAfterFailure(i) ==
  /\ crashes = 0
  /\ db[i].st = "open" /\ db[i].pc = "idle"
  /\ db[i].failed
  /\ ret.op \in {"put", "delete"} /\ ret.inst = i /\ ret.res = "ok"

\* C21: a failed append does not poison later writes.  When a put or
\* delete of a Store failed and a later one returned success, the log is
\* one that open replays without an error, and every call that returned
\* success is among the records replayed, in call order.
C21_FailedAppendNoPoison ==
  \A i \in SingleInst :
    SucceededAfterFailure(i) =>
      /\ ReplayLog(file).ok
      /\ IsSubseq(acked, ReadAll(file.bytes).records)

\* C22: nothing in open prevents a second Store on a directory on which a
\* first one is open: such an open succeeds whenever the replay of the
\* log does, and builds its index from the log as it is then.  (The state
\* in which the two Stores disagree is C22_Witness.)
C22_SecondOpenNotPrevented ==
  [][\A i \in Inst : \A j \in Inst \ {i} :
       ( /\ db[j].st = "open" /\ db[i].st = "none"
         /\ ret'.op = "open" /\ ret'.inst = i
         /\ ReadAll(file.bytes).ok )
       => /\ ret'.res = "ok"
          /\ db'[i].st = "open" /\ db'[j] = db[j]
          /\ db'[i].index = Fold(EmptyIndex, ReadAll(file.bytes).records)
          /\ file' = file
    ]_vars

\* two Stores are open and no write has failed; put("k", v) of Store 1 has
\* returned success and is in the file, and Store 2, opened before it,
\* does not return it: its index is not the fold of the log
C22_Witness ==
  /\ Clean
  /\ db[1].st = "open" /\ db[1].pc = "idle"
  /\ db[2].st = "open" /\ db[2].pc = "idle"
  /\ ret = Returned("put", 1, "ok", "none")
  /\ acked = <<PutRecord(<<107>>, <<>>)>>
  /\ ReadAll(file.bytes) = ReadOk(acked)
  /\ Get(db[1].index, <<107>>) = Some(<<>>)
  /\ Get(db[2].index, <<107>>) = None
  /\ db[2].index # Fold(EmptyIndex, ReadAll(file.bytes).records)

\* C23: open never modifies existing log content.  Whatever an existing
\* log file holds, open leaves its bytes as they are, whether it returns a
\* Store or an error; when replay fails no Store and no writer exist
\* afterwards; and a close that follows an open directly leaves the file
\* unchanged.
C23_OpenKeepsLog ==
  [][\A i \in SingleInst :
       /\ ( /\ file.exists /\ db[i].st = "none"
            /\ ret'.op = "open" /\ ret'.inst = i )
          => /\ file' = file
             /\ ~ReadAll(file.bytes).ok =>
                  /\ ret'.res = "err"
                  /\ db' = db /\ db'[i] = NoDb
       /\ ( /\ ret = Returned("open", i, "ok", "none") /\ db[i].st = "open"
            /\ ret'.op = "close" /\ ret'.inst = i )
          => file' = file
    ]_vars

\* open has returned a Store on the log that two acknowledged calls and
\* a kill of the process left behind, and the file still holds exactly
\* the two records
C23_Witness ==
  /\ ret = Returned("open", 1, "ok", "none")
  /\ crashes = 1 /\ synced = 0
  /\ Len(acked) = 2
  /\ db[1].openLen = Len(EncodeAll(acked))
  /\ file.bytes = EncodeAll(acked)

\* the number read from a 4-byte little-endian length field is the number
\* of bytes len
FieldIs(field, len) ==
  <<0>> \o <<field[4], field[3], field[2], field[1]>> = len

\* C24: in every record written by an append that returned success, each
\* length field equals the number of key (value) bytes written right
\* after it, also for a key or value of 2^32 bytes and more.
C24_LengthFieldMatches ==
  ret.op \in {"put", "delete"} /\ ret.res = "ok" /\ ret.inst = 0 =>
    /\ FieldIs(ret.keyField, ret.keyBytes)
    /\ ret.op = "put" => FieldIs(ret.valueField, ret.valueBytes)

====
